---- MODULE Spec2Model ----
(***************************************************************************)
(* Model of radio/preprocessing/mask.py: the mask-construction kernels     *)
(* create_mask_reg / create_mask_reg_jit, insert_cropped,                  *)
(* make_rect_mask_numba and make_ellipse_mask_numba.                       *)
(*                                                                         *)
(* A 3d-array is a record [shape, data]: shape is a triple of lengths and  *)
(* data maps every 0-based index triple of that shape to a value.          *)
(***************************************************************************)
EXTENDS Integers, Sequences, FiniteSets, TLC

VARIABLES
    pc,             \* position of the call under study
    where,          \* insert_cropped: destination array
    what,           \* insert_cropped: inserted array
    origin,         \* insert_cropped: insertion origin (z, y, x)
    where0,         \* destination as it was when the call started
    eff,            \* what the last call did: regions, indices touched, error
    masks_array,    \* create_mask_reg: the batch of masks, one array per item
    centers,        \* per item: center (z, y, x)
    sizes,          \* create_mask_reg: per item, size (z, y, x)
    probs,          \* create_mask_reg: per item, probability
    crop_shape,     \* create_mask_reg: shape of every item's mask
    threshold,      \* create_mask_reg: probability threshold
    start_pixels,   \* create_mask_reg: per item, first voxel of the box
    end_pixels,     \* create_mask_reg: per item, end voxel of the box
    batch_mask,     \* the fillers: the shared mask
    mask0,          \* batch_mask as it was when the last filler call started
    kind,           \* "rect" or "ellipse": the filler last called
    ncalls,         \* filler calls made so far
    start,          \* per item: first voxel of its window in batch_mask
    end,            \* per item: end voxel of its window in batch_mask
    nodules_start,  \* make_rect_mask_numba: per item, box start in its window
    nodules_size,   \* make_rect_mask_numba: per item, box size
    radiuses,       \* make_ellipse_mask_numba: per item, radii
    todo,           \* parallel run: per worker, the voxel writes still to do
    writers         \* parallel run: per voxel, the workers that wrote it

insVars == <<where, what, origin, where0, eff>>
regVars == <<masks_array, sizes, probs, crop_shape, threshold, start_pixels, end_pixels>>
itemVars == <<start, end, nodules_start, nodules_size, radiuses>>
fillVars == <<batch_mask, mask0, kind, ncalls, itemVars>>
parVars == <<todo, writers>>
vars == <<pc, insVars, regVars, centers, fillVars, parVars>>

\* Value of the variables a specification does not use.
Unused == <<>>
UnusedIns ==
    where = Unused /\ what = Unused /\ origin = Unused /\ where0 = Unused /\ eff = Unused
UnusedReg ==
    /\ masks_array = Unused /\ sizes = Unused /\ probs = Unused /\ crop_shape = Unused
    /\ threshold = Unused /\ start_pixels = Unused /\ end_pixels = Unused
UnusedFill ==
    /\ batch_mask = Unused /\ mask0 = Unused /\ kind = Unused /\ ncalls = Unused
    /\ start = Unused /\ end = Unused /\ nodules_start = Unused
    /\ nodules_size = Unused /\ radiuses = Unused
UnusedPar == todo = Unused /\ writers = Unused

----------------------------------------------------------------------------
(* Bounds of the model *)

MaxWhere == 3
MaxWhat == 2
\* create_mask_reg: centers and sizes are multiples of 1 / 2^GridBits, which
\* float64 holds and combines exactly.
GridBits == 1
MaxCrop == 3
\* The fillers: batch_mask has shape (VolZ, VolYX, VolYX).
VolZ == 3
VolYX == 2
MaxCalls == 2
\* make_ellipse_mask_numba alone: radii up to MaxRadius in a cube of side EllSide.
MaxRadius == 7
EllSide == 5

----------------------------------------------------------------------------
(* numpy primitives *)

Axes == 1..3

Min2(a, b) == IF a <= b THEN a ELSE b
Max2(a, b) == IF a >= b THEN a ELSE b

Idx(shape) ==
    {<<i, j, k>> : i \in 0..(shape[1] - 1), j \in 0..(shape[2] - 1), k \in 0..(shape[3] - 1)}

\* Whether p is an index of an array of that shape.
InShape(p, shape) == \A k \in Axes : 0 <= p[k] /\ p[k] < shape[k]

\* np.zeros(shape), np.ones(shape): an array holding v everywhere.
Filled(shape, v) == [shape |-> shape, data |-> [p \in Idx(shape) |-> v]]

\* One bound of a basic slice a:b on an axis of length n: a negative bound
\* counts from the end, and the result is clamped into 0..n.
SliceBound(a, n) == IF a < 0 THEN Max2(a + n, 0) ELSE Min2(a, n)

\* The region arr[st[0]:en[0], st[1]:en[1], st[2]:en[2]] selects:
\* base is its first index, shape its extent.
Slice(shape, st, en) ==
    LET lo == [k \in Axes |-> SliceBound(st[k], shape[k])]
        hi == [k \in Axes |-> SliceBound(en[k], shape[k])]
    IN [base |-> lo, shape |-> [k \in Axes |-> Max2(hi[k] - lo[k], 0)]]

\* Whether an array of shape src can be assigned to a region of shape dst
\* (equal extents, or an extent of 1 that is broadcast).
Assignable(dst, src) == \A k \in Axes : src[k] = dst[k] \/ src[k] = 1

\* Index of the source element that lands on offset d of the region.
BroadcastIdx(d, src) == [k \in Axes |-> IF src[k] = 1 THEN 0 ELSE d[k]]

Plus(a, b) == [k \in Axes |-> a[k] + b[k]]
Minus(a, b) == [k \in Axes |-> a[k] - b[k]]
Zeros == <<0, 0, 0>>

----------------------------------------------------------------------------
(* insert_cropped *)

\* "check if there is anything to insert"
NothingToInsert(what_shape, where_shape, org) ==
    \/ \E k \in Axes : what_shape[k] + org[k] <= 0
    \/ \E k \in Axes : org[k] >= where_shape[k]

StWhat(org) == [k \in Axes |-> -Min2(0, org[k])]

\* Mutant: the source region is not clipped to the destination.
EndWhatUnclipped(what_shape, where_shape, org) == what_shape

EndWhat(what_shape, where_shape, org) ==
    [k \in Axes |-> Min2(where_shape[k] - org[k], what_shape[k])]

\* Mutant: a negative origin is used as the destination bound as it is.
StWhereUnclipped(org) == org

StWhere(org) == [k \in Axes |-> Max2(org[k], 0)]

EndWhere(what_shape, where_shape, org) ==
    [k \in Axes |-> Min2(org[k] + what_shape[k], where_shape[k])]

NoEffect ==
    [performed |-> FALSE, raised |-> FALSE, reads |-> {}, writes |-> {},
     st_what |-> Zeros, end_what |-> Zeros, st_where |-> Zeros, end_where |-> Zeros]

\* where[st_where:end_where] = what[st_what:end_what]: the new destination
\* and the effect record of the assignment.
SliceAssign(dst, src, st_where, end_where, st_what, end_what) ==
    LET w == Slice(dst.shape, st_where, end_where)
        r == Slice(src.shape, st_what, end_what)
        offs == Idx(w.shape)
        ok == Assignable(w.shape, r.shape)
        from(d) == Plus(r.base, BroadcastIdx(d, r.shape))
    IN [where |->
            IF ok
            THEN [dst EXCEPT !.data =
                    [p \in Idx(dst.shape) |->
                        IF InShape(Minus(p, w.base), w.shape)
                        THEN src.data[from(Minus(p, w.base))]
                        ELSE dst.data[p]]]
            ELSE dst,
        eff |->
            [performed |-> TRUE, raised |-> ~ok,
             reads |-> IF ok THEN {from(d) : d \in offs} ELSE {},
             writes |-> IF ok THEN {Plus(w.base, d) : d \in offs} ELSE {},
             st_what |-> st_what, end_what |-> end_what,
             st_where |-> st_where, end_where |-> end_where]]

insert_cropped(dst, src, org) ==
    IF NothingToInsert(src.shape, dst.shape, org)
    THEN [where |-> dst, eff |-> NoEffect]
    ELSE SliceAssign(dst, src,
                     StWhere(org), EndWhere(src.shape, dst.shape, org),
                     StWhat(org), EndWhat(src.shape, dst.shape, org))

----------------------------------------------------------------------------
(* Inputs of insert_cropped *)

Cube(n) == <<n, n, n>>
Stair(n) == <<n, Max2(n - 1, 0), Max2(n - 2, 0)>>

WhereShapes == {Cube(n) : n \in 0..MaxWhere} \cup {Stair(MaxWhere)}
WhatShapes == {Cube(n) : n \in 0..MaxWhat} \cup {Stair(MaxWhat)}
Origins == (-(MaxWhat + 1))..(MaxWhere + 2)

\* An array whose elements all differ from one another and from 0 and 1.
Coded(shape, sign) ==
    [shape |-> shape,
     data |-> [p \in Idx(shape) |-> sign * (2 + p[1] + 8 * p[2] + 64 * p[3])]]

InitInsert ==
    /\ pc = "call"
    /\ \E ws \in WhereShapes, ts \in WhatShapes, coded \in BOOLEAN :
        /\ where = (IF coded THEN Coded(ws, -1) ELSE Filled(ws, 0))
        /\ what = (IF coded THEN Coded(ts, 1) ELSE Filled(ts, 1))
    /\ origin \in [Axes -> Origins]
    /\ where0 = where
    /\ eff = NoEffect
    /\ UnusedReg /\ centers = Unused /\ UnusedFill /\ UnusedPar

CallInsert ==
    /\ pc = "call"
    /\ \E r \in {insert_cropped(where, what, origin)} :
          /\ where' = r.where
          /\ eff' = r.eff
          /\ pc' = IF r.eff.raised THEN "raised" ELSE "done"
    /\ UNCHANGED <<what, origin, where0, regVars, centers, fillVars, parVars>>

NextInsert == CallInsert

SpecInsert == InitInsert /\ [][NextInsert]_vars

----------------------------------------------------------------------------
(* Claims about insert_cropped *)

InRange(st, en, shape) == \A k \in Axes : 0 <= st[k] /\ st[k] <= en[k] /\ en[k] <= shape[k]

\* C1: insert_cropped never fails, for every destination shape, source shape
\* and origin; it reads only indices of the source and writes only indices of
\* the destination; and when it copies, the bounds of the read region and of
\* the write region lie inside their arrays and the two regions have the same
\* length on every axis.
C1_InsertTotalBoundsSafe ==
    /\ pc # "raised"
    /\ pc = "done" =>
        /\ eff.reads \subseteq Idx(what.shape)
        /\ eff.writes \subseteq Idx(where.shape)
        /\ eff.performed =>
            /\ InRange(eff.st_what, eff.end_what, what.shape)
            /\ InRange(eff.st_where, eff.end_where, where.shape)
            /\ \A k \in Axes :
                eff.end_what[k] - eff.st_what[k] = eff.end_where[k] - eff.st_where[k]

\* A copy that is clipped at the low side on one axis and at the high side on
\* another.
C1_Witness ==
    /\ pc = "done"
    /\ eff.performed
    /\ eff.writes # {}
    /\ origin[1] < 0
    /\ origin[2] + what.shape[2] > where.shape[2]

\* The clipped paste: what the destination must hold after the call.
Pasted(dst0, src, org) ==
    [p \in Idx(dst0.shape) |->
        IF InShape(Minus(p, org), src.shape) THEN src.data[Minus(p, org)] ELSE dst0.data[p]]

OnlyVoxel(shape, q) == [p \in Idx(shape) |-> IF p = q THEN 1 ELSE 0]

\* C2: after the call every destination voxel p holds source[p - origin] if
\* that is an index of the source and its old value otherwise; a source lying
\* entirely before or beyond the destination on some axis leaves it unchanged;
\* all-ones (2,2,2) into zero (3,3,3) at (2,2,2) sets only [2,2,2], and at
\* (-1,-1,-1) sets only [0,0,0].
C2_InsertIsClippedPaste ==
    pc = "done" =>
        /\ where.shape = where0.shape
        /\ where.data = Pasted(where0, what, origin)
        /\ NothingToInsert(what.shape, where.shape, origin) => where = where0
        /\ (where0 = Filled(Cube(3), 0) /\ what = Filled(Cube(2), 1)) =>
            /\ origin = <<2, 2, 2>> => where.data = OnlyVoxel(Cube(3), <<2, 2, 2>>)
            /\ origin = <<-1, -1, -1>> => where.data = OnlyVoxel(Cube(3), <<0, 0, 0>>)
            /\ origin = <<5, 5, 5>> => where = where0

\* Scenario 1 has run.
C2_Witness ==
    /\ pc = "done"
    /\ where0 = Filled(Cube(3), 0)
    /\ what = Filled(Cube(2), 1)
    /\ origin = <<2, 2, 2>>
    /\ where.data[<<2, 2, 2>>] = 1

----------------------------------------------------------------------------
(* create_mask_reg and create_mask_reg_jit *)

\* Centers and sizes are fractions n / Den given by their numerator n;
\* center -/+ size / 2 is then a fraction over 2 * Den. Probabilities and the
\* threshold are given in tenths.
Den == 2 ^ GridBits
Den2 == 2 * Den

\* np.clip(x, 0, 1) of the fraction x / Den2.
\* Mutant: the value is not clipped.
ClipNone(x) == x

Clip01(x) == Max2(0, Min2(x, Den2))

\* np.rint of the fraction num / Den2: to the nearest integer, ties to even.
RInt(num) ==
    LET q == num \div Den2
        r == num % Den2
    IN IF 2 * r < Den2 THEN q
       ELSE IF 2 * r > Den2 THEN q + 1
       ELSE IF q % 2 = 0 THEN q ELSE q + 1

StartPixels(center, size, crop) ==
    [k \in Axes |-> RInt(Clip01(2 * center[k] - size[k]) * crop[k])]

EndPixels(center, size, crop) ==
    [k \in Axes |-> RInt(Clip01(2 * center[k] + size[k]) * crop[k])]

\* Mutant: the comparison is not strict.
SelectedNonStrict(p, thr) == p >= thr

\* Mutant: nothing is thresholded.
SelectedAlways(p, thr) == TRUE

\* positions: "p > threshold"
Selected(p, thr) == p > thr

\* arr[st[0]:en[0], st[1]:en[1], st[2]:en[2]] = v
SliceFill(arr, st, en, v) ==
    LET w == Slice(arr.shape, st, en)
    IN [arr EXCEPT !.data =
            [p \in Idx(arr.shape) |->
                IF InShape(Minus(p, w.base), w.shape) THEN v ELSE arr.data[p]]]

create_mask_reg_jit(masks, st, en) ==
    [i \in 1..Len(st) |-> SliceFill(masks[i], st[i], en[i], 1)]

\* a[positions, ...]: the items of a at the selected positions, in order.
Take(a, positions) ==
    LET pos == SelectSeq([i \in 1..Len(a) |-> i], LAMBDA i : positions[i])
    IN [j \in 1..Len(pos) |-> a[pos[j]]]

\* a[positions, ...] = b: the selected items of a replaced, in order, by b's.
Put(a, positions, b) ==
    LET rank(i) == Cardinality({j \in 1..i : positions[j]})
    IN [i \in 1..Len(a) |-> IF positions[i] THEN b[rank(i)] ELSE a[i]]

create_mask_reg(cs, ss, ps, crop, thr) ==
    LET n_items == Len(cs)
        zeros == [i \in 1..n_items |-> Filled(crop, 0)]
        st == [i \in 1..n_items |-> StartPixels(cs[i], ss[i], crop)]
        en == [i \in 1..n_items |-> EndPixels(cs[i], ss[i], crop)]
        positions == [i \in 1..Len(ps) |-> Selected(ps[i], thr)]
    IN [masks_array |->
            Put(zeros, positions,
                create_mask_reg_jit(Take(zeros, positions), Take(st, positions),
                                    Take(en, positions))),
        start_pixels |-> st,
        end_pixels |-> en]

(* Inputs of create_mask_reg *)

CenterNums == (-1)..(Den + 1)
SizeNums == 0..Den
RegSizes == {Cube(s) : s \in SizeNums} \cup {<<Den, s, 0>> : s \in SizeNums} \cup {Cube(-1)}
RegItems == {<<c, s>> : c \in [Axes -> CenterNums], s \in RegSizes}
\* The second item of the batch.
RegOthers == {<<Cube(Den \div 2), Cube(Den)>>, <<<<0, Den \div 2, Den>>, <<Den, Den \div 2, Den>>>>}
CropShapes == {Cube(n) : n \in 1..MaxCrop} \cup {Stair(MaxCrop + 1)}
ProbPairs == {<<9, 1>>, <<5, 9>>, <<9, 9>>, <<1, 1>>}

InitReg ==
    /\ pc = "call"
    /\ \E a \in RegItems, b \in RegOthers :
        /\ centers = <<a[1], b[1]>>
        /\ sizes = <<a[2], b[2]>>
    /\ probs \in ProbPairs
    /\ crop_shape \in CropShapes
    /\ threshold = 5
    /\ masks_array = Unused /\ start_pixels = Unused /\ end_pixels = Unused
    /\ UnusedIns /\ UnusedFill /\ UnusedPar

CallReg ==
    /\ pc = "call"
    /\ \E r \in {create_mask_reg(centers, sizes, probs, crop_shape, threshold)} :
          /\ masks_array' = r.masks_array
          /\ start_pixels' = r.start_pixels
          /\ end_pixels' = r.end_pixels
    /\ pc' = "done"
    /\ UNCHANGED <<centers, sizes, probs, crop_shape, threshold, insVars, fillVars, parVars>>

NextReg == CallReg

SpecReg == InitReg /\ [][NextReg]_vars

(* Claims about create_mask_reg *)

Items == 1..2

\* The box [st, en) of an array of shape crop, as the array it is the mask of.
BoxMask(crop, st, en) ==
    [p \in Idx(crop) |-> IF \A k \in Axes : st[k] <= p[k] /\ p[k] < en[k] THEN 1 ELSE 0]

\* round(clip(x, 0, 1) * crop) for the fraction x = num / Den2, by cases.
RoundClipScale(num, n) ==
    IF num <= 0 THEN 0
    ELSE IF num >= Den2 THEN n
    ELSE CHOOSE z \in 0..n :
            \/ 2 * Den2 * z - Den2 < 2 * num * n /\ 2 * num * n < 2 * Den2 * z + Den2
            \/ z % 2 = 0 /\ (2 * num * n = 2 * Den2 * z - Den2 \/ 2 * num * n = 2 * Den2 * z + Den2)

\* C6: item i's mask is 1 exactly on the box [start_i, end_i), start_i =
\* round(clip(center_i - size_i/2, 0, 1) * crop_shape) and end_i likewise with
\* +, when prob_i > threshold, and all zero when prob_i <= threshold (also when
\* prob_i = threshold); no item's mask depends on another item, and a batch in
\* which no item passes is all zero, without error.
C6_RegThresholdPerItem ==
    pc = "done" =>
        /\ Len(masks_array) = 2
        /\ \A i \in Items :
            /\ masks_array[i].shape = crop_shape
            /\ masks_array[i].data =
                IF probs[i] > threshold
                THEN BoxMask(crop_shape,
                        [k \in Axes |-> RoundClipScale(2 * centers[i][k] - sizes[i][k], crop_shape[k])],
                        [k \in Axes |-> RoundClipScale(2 * centers[i][k] + sizes[i][k], crop_shape[k])])
                ELSE [p \in Idx(crop_shape) |-> 0]

\* An item at the threshold stays empty beside an item above it that is filled.
C6_Witness ==
    /\ pc = "done"
    /\ probs = <<5, 9>>
    /\ \E p \in Idx(crop_shape) : masks_array[2].data[p] = 1
    /\ \A p \in Idx(crop_shape) : masks_array[1].data[p] = 0
    /\ \A k \in Axes : start_pixels[1][k] < end_pixels[1][k]

NonEmpty(arr) == \E p \in Idx(arr.shape) : arr.data[p] = 1
AllZero(arr) == \A p \in Idx(arr.shape) : arr.data[p] = 0

\* C7 as stated: with probs = [0.9, 0.1] and threshold 0.5, item 0's mask is
\* non-empty and item 1's is all zero whenever item 0's size is positive on
\* every axis, whatever the centers, sizes and crop_shape.
C7_AsStated ==
    (pc = "done" /\ probs = <<9, 1>> /\ threshold = 5 /\ \A k \in Axes : sizes[1][k] > 0) =>
        NonEmpty(masks_array[1]) /\ AllZero(masks_array[2])

\* Width of item i's clipped box on axis k, in voxels, exceeds one.
WiderThanOneVoxel(i, k) ==
    (Clip01(2 * centers[i][k] + sizes[i][k]) - Clip01(2 * centers[i][k] - sizes[i][k]))
        * crop_shape[k] > Den2

\* C7 amended: with probs = [0.9, 0.1] and threshold 0.5, item 1's mask is all
\* zero, and item 0's mask is non-empty exactly when its rounded start is
\* below its rounded end on every axis, which holds whenever its clipped box
\* is more than one voxel wide on every axis.
C7_RegThresholdAmended ==
    (pc = "done" /\ probs = <<9, 1>> /\ threshold = 5) =>
        /\ AllZero(masks_array[2])
        /\ NonEmpty(masks_array[1]) <=>
            \A k \in Axes :
                RoundClipScale(2 * centers[1][k] - sizes[1][k], crop_shape[k])
                    < RoundClipScale(2 * centers[1][k] + sizes[1][k], crop_shape[k])
        /\ (\A k \in Axes : WiderThanOneVoxel(1, k)) => NonEmpty(masks_array[1])

\* Item 0's clipped box is more than one voxel wide on every axis and its mask
\* is non-empty, beside an all-zero item 1.
C7_Witness ==
    /\ pc = "done" /\ probs = <<9, 1>> /\ threshold = 5
    /\ \A k \in Axes : sizes[1][k] > 0
    /\ \A k \in Axes : WiderThanOneVoxel(1, k)
    /\ NonEmpty(masks_array[1])
    /\ AllZero(masks_array[2])

\* C8: for every item and axis with a non-negative size, 0 <= start <= end <=
\* crop_shape, for every center; so the slice that create_mask_reg_jit fills
\* is not inverted and lies inside the item's mask.
C8_RegStartEndOrdered ==
    pc = "done" =>
        \A i \in Items : \A k \in Axes :
            sizes[i][k] >= 0 =>
                /\ 0 <= start_pixels[i][k]
                /\ start_pixels[i][k] <= end_pixels[i][k]
                /\ end_pixels[i][k] <= crop_shape[k]

\* An item whose box is clipped at 0 on one axis and, its center lying beyond
\* 1, is clipped to nothing at crop_shape on another.
C8_Witness ==
    /\ pc = "done"
    /\ \E i \in Items : \E k, l \in Axes :
        /\ 2 * centers[i][k] - sizes[i][k] < 0
        /\ start_pixels[i][k] = 0
        /\ end_pixels[i][k] > 0
        /\ centers[i][l] > Den
        /\ sizes[i][l] > 0
        /\ start_pixels[i][l] = crop_shape[l]
        /\ end_pixels[i][l] = crop_shape[l]

----------------------------------------------------------------------------
(* float64 arithmetic of the ellipsoid test                                *)
(*                                                                         *)
(* A natural number of any size is a sequence of limbs, least significant  *)
(* first, each in 0..Base-1. A float is [neg, m, e]: the value             *)
(* (-1)^neg * m * 2^e with m such a number of at most Mant bits. Every     *)
(* operation computes its exact result and rounds it to the nearest float, *)
(* ties to even.                                                           *)

\* float64 has a 53-bit significand.
Mant == 53
LimbBits == 10
Base == 2 ^ LimbBits
\* Limbs of the fraction computed by a division before it is rounded.
DivLimbs == 7

Limb(N, i) == IF i \in 1..Len(N) THEN N[i] ELSE 0

BitLenSmall(x) ==
    IF x = 0 THEN 0 ELSE CHOOSE n \in 1..LimbBits : (2 ^ (n - 1)) <= x /\ x < (2 ^ n)

BitLen(N) ==
    IF \A i \in 1..Len(N) : N[i] = 0 THEN 0
    ELSE LET top == CHOOSE i \in 1..Len(N) : N[i] # 0 /\ \A j \in (i + 1)..Len(N) : N[j] = 0
         IN (top - 1) * LimbBits + BitLenSmall(N[top])

\* Bit b (from 0) of N.
Bit(N, b) == (Limb(N, (b \div LimbBits) + 1) \div (2 ^ (b % LimbBits))) % 2

\* Whether the bits of N below bit b are all 0.
LowZero(N, b) ==
    /\ \A i \in 1..(b \div LimbBits) : Limb(N, i) = 0
    /\ (Limb(N, (b \div LimbBits) + 1) % (2 ^ (b % LimbBits))) = 0

ShiftRight(N, b) ==
    LET q == b \div LimbBits
        r == b % LimbBits
    IN [i \in 1..Max2(Len(N) - q, 1) |->
            (Limb(N, i + q) \div (2 ^ r)) + ((Limb(N, i + q + 1) % (2 ^ r)) * (2 ^ (LimbBits - r)))]

ShiftLeft(N, b) ==
    LET q == b \div LimbBits
        r == b % LimbBits
    IN [i \in 1..(Len(N) + q + 1) |->
            IF i <= q THEN 0
            ELSE ((Limb(N, i - q) * (2 ^ r)) % Base) + (Limb(N, i - q - 1) \div (2 ^ (LimbBits - r)))]

\* Limbs of a sequence of numbers that may exceed Base, carries done.
RECURSIVE Carried(_, _, _)
Carried(S, i, carry) ==
    IF i > Len(S)
    THEN IF carry = 0 THEN <<>> ELSE <<carry % Base>> \o Carried(S, i, carry \div Base)
    ELSE <<(S[i] + carry) % Base>> \o Carried(S, i + 1, (S[i] + carry) \div Base)

BigAdd(A, B) ==
    Carried([i \in 1..Max2(Len(A), Len(B)) |-> Limb(A, i) + Limb(B, i)], 1, 0)

RECURSIVE ConvSum(_, _, _, _)
ConvSum(A, B, k, i) ==
    IF i > Len(A) THEN 0 ELSE (Limb(A, i) * Limb(B, k + 1 - i)) + ConvSum(A, B, k, i + 1)

BigMul(A, B) == Carried([k \in 1..(Len(A) + Len(B)) |-> ConvSum(A, B, k, 1)], 1, 0)

\* N without its leading zero limbs.
Trim(N) == SubSeq(N, 1, Max2(1, (BitLen(N) + LimbBits - 1) \div LimbBits))

\* The exact value N * 2^e rounded to a float.
Round(neg, N, e) ==
    LET len == BitLen(N)
        s == len - Mant
        up == Bit(N, s - 1) = 1 /\ (~LowZero(N, s - 1) \/ Bit(N, s) = 1)
    IN IF len = 0 THEN [neg |-> neg, m |-> <<0>>, e |-> 0]
       ELSE IF len <= Mant THEN [neg |-> neg, m |-> Trim(N), e |-> e]
       ELSE [neg |-> neg,
             m |-> Trim(IF up THEN BigAdd(ShiftRight(N, s), <<1>>) ELSE ShiftRight(N, s)),
             e |-> e + s]

\* Limbs of the fraction rem / b, most significant first, and what is left.
RECURSIVE FracLimbs(_, _, _)
FracLimbs(rem, b, n) ==
    IF n = 0 THEN <<>> ELSE <<(rem * Base) \div b>> \o FracLimbs((rem * Base) % b, b, n - 1)

RECURSIVE FracRest(_, _, _)
FracRest(rem, b, n) == IF n = 0 THEN rem ELSE FracRest((rem * Base) % b, b, n - 1)

Abs(x) == IF x < 0 THEN -x ELSE x

\* a / b for integers a and b > 0, both converted to float exactly.
FDiv(a, b) ==
    LET frac == FracLimbs(Abs(a) % b, b, DivLimbs)
        quot == [i \in 1..(DivLimbs + 1) |->
                    IF i <= DivLimbs THEN frac[DivLimbs + 1 - i] ELSE Abs(a) \div b]
        sticky == IF FracRest(Abs(a) % b, b, DivLimbs) = 0 THEN 0 ELSE 1
    IN Round(a < 0, BigAdd(ShiftLeft(quot, 1), <<sticky>>), (-(DivLimbs * LimbBits)) - 1)

\* a * b
FMul(a, b) == Round(a.neg # b.neg, BigMul(a.m, b.m), a.e + b.e)

\* a + b for a, b >= 0
FAdd(a, b) ==
    LET e == Min2(a.e, b.e)
    IN IF BitLen(a.m) = 0 THEN b
       ELSE IF BitLen(b.m) = 0 THEN a
       ELSE Round(FALSE, BigAdd(ShiftLeft(a.m, a.e - e), ShiftLeft(b.m, b.e - e)), e)

\* a < 1
FLessOne(a) ==
    \/ BitLen(a.m) = 0
    \/ a.neg
    \/ a.e < 0 /\ BitLen(a.m) <= -a.e

----------------------------------------------------------------------------
(* make_rect_mask_numba *)

\* Mutant: the nodule is built with np.zeros.
NoduleOfZeros(nodule_size) == Filled(nodule_size, 0)

\* nodule = np.ones((int(nodule_size[0]), int(nodule_size[1]), int(nodule_size[2])))
Nodule(nodule_size) == Filled(nodule_size, 1)

\* Mutant: the whole mask is taken as the patient's window.
PatientWindowWhole(shape, st, en) == [base |-> Zeros, shape |-> shape]

\* Region of batch_mask that patient_mask = batch_mask[start:end] views.
PatientWindow(shape, st, en) == Slice(shape, st, en)

\* One iteration of the loop: the mask after it, the voxels of batch_mask it
\* wrote, and whether insert_cropped raised.
RectItem(mask, st, en, nodule_start, nodule_size) ==
    LET w == PatientWindow(mask.shape, st, en)
        patient_mask ==
            [shape |-> w.shape, data |-> [q \in Idx(w.shape) |-> mask.data[Plus(w.base, q)]]]
        r == insert_cropped(patient_mask, Nodule(nodule_size), nodule_start)
    IN [mask |->
            [mask EXCEPT !.data =
                [p \in Idx(mask.shape) |->
                    IF InShape(Minus(p, w.base), w.shape)
                    THEN r.where.data[Minus(p, w.base)]
                    ELSE mask.data[p]]],
        writes |-> {Plus(w.base, q) : q \in r.eff.writes},
        raised |-> r.eff.raised]

\* The loop from item i on; acc is the state after the items before i. (The
\* singleton set binds the result of an iteration, so that it is computed once.)
RECURSIVE RectLoop(_, _, _, _, _, _)
RectLoop(acc, st, en, ns, nz, i) ==
    IF i > Len(ns) \/ acc.raised THEN acc
    ELSE CHOOSE out \in
            {RectLoop([nxt EXCEPT !.writes = @ \cup acc.writes], st, en, ns, nz, i + 1) :
                nxt \in {RectItem(acc.mask, st[i], en[i], ns[i], nz[i])}} : TRUE

make_rect_mask_numba(mask, st, en, ns, nz) ==
    RectLoop([mask |-> mask, writes |-> {}, raised |-> FALSE], st, en, ns, nz, 1)

----------------------------------------------------------------------------
(* make_ellipse_mask_numba *)

\* ((x - center) / radius) ** 2, for every difference the scan can meet.
SquaredQuotient ==
    [d \in (-MaxRadius)..MaxRadius, r \in 1..MaxRadius |-> FMul(FDiv(d, r), FDiv(d, r))]

Metric(v, center, radius) ==
    FAdd(FAdd(SquaredQuotient[v[1] - center[1], radius[1]],
              SquaredQuotient[v[2] - center[2], radius[2]]),
         SquaredQuotient[v[3] - center[3], radius[3]])

\* a = 1
FIsOne(a) == ~a.neg /\ BitLen(a.m) = 1 - a.e /\ LowZero(a.m, BitLen(a.m) - 1)

\* Mutant: the test is "<= 1".
InsideOrOn(v, center, radius) ==
    FLessOne(Metric(v, center, radius)) \/ FIsOne(Metric(v, center, radius))

\* The test "... < 1" of the innermost loop.
Inside(v, center, radius) == FLessOne(Metric(v, center, radius))

\* Mutant: the scan is not cut at the window's start.
ScanBeginUnclipped(center, radius) == [k \in Axes |-> center[k] - radius[k]]

ScanBegin(center, radius) == [k \in Axes |-> Max2(0, center[k] - radius[k])]

ScanEnd(st, en, center, radius) ==
    [k \in Axes |-> Min2(en[k] - st[k], center[k] + radius[k] + 1)]

\* The window-relative voxels that range(begin, end) visits on the three axes.
Scanned(st, en, center, radius) ==
    LET b == ScanBegin(center, radius)
        e == ScanEnd(st, en, center, radius)
    IN {<<x, y, z>> : x \in b[1]..(e[1] - 1), y \in b[2]..(e[2] - 1), z \in b[3]..(e[3] - 1)}

\* One iteration of the outer loop: the mask after it and the voxels of
\* batch_mask it wrote. A negative index counts from the end of its axis. The
\* compiled loop does not check an index: one past the end of an axis is an
\* access outside the array, which has no defined outcome and is recorded as
\* raised.
EllipseItem(mask, st, en, center, radius) ==
    LET hits == {Plus(v, st) : v \in {u \in Scanned(st, en, center, radius) : Inside(u, center, radius)}}
        at == {[k \in Axes |-> IF h[k] < 0 THEN h[k] + mask.shape[k] ELSE h[k]] : h \in hits}
        ok == \A h \in at : InShape(h, mask.shape)
    IN [mask |-> IF ok
                 THEN [mask EXCEPT !.data =
                        [p \in Idx(mask.shape) |-> IF p \in at THEN 1 ELSE mask.data[p]]]
                 ELSE mask,
        writes |-> IF ok THEN at ELSE {},
        raised |-> ~ok]

RECURSIVE EllipseLoop(_, _, _, _, _, _)
EllipseLoop(acc, st, en, cs, rs, i) ==
    IF i > Len(cs) \/ acc.raised THEN acc
    ELSE CHOOSE out \in
            {EllipseLoop([nxt EXCEPT !.writes = @ \cup acc.writes], st, en, cs, rs, i + 1) :
                nxt \in {EllipseItem(acc.mask, st[i], en[i], cs[i], rs[i])}} : TRUE

make_ellipse_mask_numba(mask, st, en, cs, rs) ==
    EllipseLoop([mask |-> mask, writes |-> {}, raised |-> FALSE], st, en, cs, rs, 1)

----------------------------------------------------------------------------
(* Calls of the two fillers on one shared mask *)

VolShape == <<VolZ, VolYX, VolYX>>

\* A mask holding 1 on every other voxel.
Checker(shape) ==
    [shape |-> shape, data |-> [p \in Idx(shape) |-> (p[1] + p[2] + p[3]) % 2]]

InitMasks == {Filled(VolShape, 0), Checker(VolShape)}

\* Windows <<start, end>> inside the mask: all of it, its lower slab, its top
\* slice, an inner box and an empty window.
Windows ==
    {<<Zeros, VolShape>>,
     <<Zeros, <<VolZ - 1, VolYX, VolYX>>>>,
     <<<<VolZ - 1, 0, 0>>, VolShape>>,
     <<<<1, 0, 1>>, <<VolZ, 1, VolYX>>>>,
     <<<<1, 1, 1>>, <<1, 1, 1>>>>}

\* Items of a rect call: <<window, nodule_start, nodule_size>>.
RectItems ==
    {<<w, ns, nz>> :
        w \in Windows,
        ns \in (-1..(VolZ - 1)) \X (-1..(VolYX - 1)) \X (-1..(VolYX - 1)),
        nz \in {Cube(1), Cube(2), <<1, 2, 1>>}}
\* A box outside its window, and one across the end of the lower slab.
RectOutside == <<<<Zeros, VolShape>>, <<-1, 0, 0>>, Cube(1)>>
RectOthers ==
    {RectOutside, <<<<Zeros, <<VolZ - 1, VolYX, VolYX>>>>, <<VolZ - 2, 1, -1>>, Cube(2)>>}

\* Items of an ellipse call: <<window, center, radius>>.
EllipseItems ==
    {<<w, c, r>> :
        w \in Windows,
        c \in (-1..VolZ) \X (0..VolYX) \X (0..VolYX),
        r \in {Cube(1), Cube(2), <<2, 1, 1>>}}
EllipseInner == <<<<Zeros, VolShape>>, <<1, 1, 1>>, Cube(2)>>
EllipseOthers ==
    {EllipseInner, <<<<<<VolZ - 1, 0, 0>>, VolShape>>, <<0, 1, 0>>, <<1, 1, 2>>>>}

\* The item lists of a call: none, one or two items; a call that follows
\* another has one item of the short list.
Lists(first, second) ==
    {<<>>} \cup {<<a>> : a \in first} \cup {<<a, second>> : a \in first}
RectCalls(n) == IF n = 0 THEN Lists(RectItems, RectOutside) ELSE {<<a>> : a \in RectOthers}
EllipseCalls(n) ==
    IF n = 0 THEN Lists(EllipseItems, EllipseInner) ELSE {<<a>> : a \in EllipseOthers}

\* A cube-shaped mask for calls of make_ellipse_mask_numba with one item.
ScanShape == Cube(EllSide)

\* Single items on the cube: the window is all of it or an inner box, the
\* center lies in it, before it or on its far side, the radius is a ball's of
\* every size or one of two ellipsoids'.
ScanWindows == {<<Zeros, ScanShape>>, <<<<1, 0, 1>>, <<EllSide, EllSide - 1, EllSide>>>>}
ScanCenters == {-2, 0, 2} \X {-2, 0, 2} \X {-2, 0, 2}
ScanRadiuses == {Cube(r) : r \in 1..MaxRadius} \cup {<<1, 2, 3>>, <<MaxRadius, 1, 2>>}
ScanCalls == {<<<<w, c, r>>>> : w \in ScanWindows, c \in ScanCenters, r \in ScanRadiuses}

Column(items, j) == [i \in 1..Len(items) |-> items[i][j]]
WinStart(items) == [i \in 1..Len(items) |-> items[i][1][1]]
WinEnd(items) == [i \in 1..Len(items) |-> items[i][1][2]]

InitFill ==
    /\ pc = "idle"
    /\ batch_mask \in InitMasks
    /\ mask0 = batch_mask
    /\ kind = "none"
    /\ ncalls = 0
    /\ start = <<>> /\ end = <<>> /\ nodules_start = <<>> /\ nodules_size = <<>>
    /\ centers = <<>> /\ radiuses = <<>>
    /\ UnusedIns /\ UnusedReg /\ UnusedPar

CallRect ==
    /\ pc \in {"idle", "again"}
    /\ ncalls < MaxCalls
    /\ batch_mask.shape = VolShape
    /\ \E items \in RectCalls(ncalls) :
        /\ start' = WinStart(items)
        /\ end' = WinEnd(items)
        /\ nodules_start' = Column(items, 2)
        /\ nodules_size' = Column(items, 3)
        /\ \E r \in {make_rect_mask_numba(batch_mask, WinStart(items), WinEnd(items),
                                          Column(items, 2), Column(items, 3))} :
            /\ batch_mask' = r.mask
            /\ pc' = IF r.raised THEN "raised" ELSE "done"
    /\ mask0' = batch_mask
    /\ kind' = "rect"
    /\ ncalls' = ncalls + 1
    /\ centers' = <<>> /\ radiuses' = <<>>
    /\ UNCHANGED <<insVars, regVars, parVars>>

\* The item lists of a call on a mask of the given shape.
EllipseInputs(shape, n) == IF shape = VolShape THEN EllipseCalls(n) ELSE ScanCalls

CallEllipse ==
    /\ pc \in {"idle", "again"}
    /\ ncalls < MaxCalls
    /\ \E items \in EllipseInputs(batch_mask.shape, ncalls) :
        /\ start' = WinStart(items)
        /\ end' = WinEnd(items)
        /\ centers' = Column(items, 2)
        /\ radiuses' = Column(items, 3)
        /\ \E r \in {make_ellipse_mask_numba(batch_mask, WinStart(items), WinEnd(items),
                                             Column(items, 2), Column(items, 3))} :
            /\ batch_mask' = r.mask
            /\ pc' = IF r.raised THEN "raised" ELSE "done"
    /\ mask0' = batch_mask
    /\ kind' = "ellipse"
    /\ ncalls' = ncalls + 1
    /\ nodules_start' = <<>> /\ nodules_size' = <<>>
    /\ UNCHANGED <<insVars, regVars, parVars>>

\* The last call made once more, with the same inputs.
Repeat ==
    /\ pc = "done"
    /\ \E r \in {IF kind = "rect"
                 THEN make_rect_mask_numba(batch_mask, start, end, nodules_start, nodules_size)
                 ELSE make_ellipse_mask_numba(batch_mask, start, end, centers, radiuses)} :
        /\ batch_mask' = r.mask
        /\ pc' = IF r.raised THEN "raised" ELSE "again"
    /\ UNCHANGED <<mask0, kind, ncalls, itemVars, centers, insVars, regVars, parVars>>

NextFill == CallRect \/ CallEllipse \/ Repeat

SpecFill == InitFill /\ [][NextFill]_vars

----------------------------------------------------------------------------
(* Claims about the fillers on a shared mask *)

\* The voxels of the mask that item i's box covers: those whose coordinate
\* relative to the window's start lies in the box and in the window.
BoxInWindow(i) ==
    {p \in Idx(batch_mask.shape) :
        \A k \in Axes :
            LET v == p[k] - start[i][k]
            IN /\ nodules_start[i][k] <= v /\ v < nodules_start[i][k] + nodules_size[i][k]
               /\ 0 <= v /\ v < end[i][k] - start[i][k]}

AfterRect == kind = "rect" /\ pc \in {"done", "again"}

\* C3: after make_rect_mask_numba with in-range windows and positive sizes, a
\* voxel is 1 if it was 1 before or if some item's box, cut to the item's
\* window, covers it; every other voxel is as before; the call does not fail.
C3_RectIsUnionOfClippedBoxes ==
    /\ pc # "raised"
    /\ AfterRect =>
        batch_mask =
            [shape |-> mask0.shape,
             data |-> [p \in Idx(mask0.shape) |->
                        IF mask0.data[p] = 1 \/ \E i \in 1..Len(start) : p \in BoxInWindow(i)
                        THEN 1 ELSE mask0.data[p]]]

\* A call of two items on a mask that held ones: the first box is cut by the
\* end of a window smaller than the mask and sets a voxel that was 0, the
\* second lies outside its window.
C3_Witness ==
    /\ kind = "rect" /\ pc = "done" /\ Len(start) = 2
    /\ \E p \in Idx(mask0.shape) : mask0.data[p] = 1
    /\ \E p \in BoxInWindow(1) : mask0.data[p] = 0
    /\ \E k \in Axes :
        /\ end[1][k] < batch_mask.shape[k]
        /\ nodules_start[1][k] + nodules_size[1][k] > end[1][k] - start[1][k]
    /\ BoxInWindow(2) = {}

\* C9: over any sequence of filler calls no voxel that is 1 becomes 0, and a
\* second call with the same inputs leaves the mask as the first call left it.
C9_FillersMonotoneIdempotent ==
    [][/\ \A p \in Idx(batch_mask.shape) : batch_mask.data[p] = 1 => batch_mask'.data[p] = 1
       /\ Repeat => batch_mask' = batch_mask]_vars

\* Two calls, each made twice, the last of which changed a mask that held ones.
C9_Witness ==
    /\ pc = "again" /\ ncalls >= 2
    /\ batch_mask # mask0
    /\ \E p \in Idx(mask0.shape) : mask0.data[p] = 1
----------------------------------------------------------------------------
(* One call of make_ellipse_mask_numba with one item on a cube *)

InitEllipse ==
    /\ pc = "idle"
    /\ batch_mask \in {Filled(ScanShape, 0), Checker(ScanShape)}
    /\ mask0 = batch_mask
    /\ kind = "none"
    /\ ncalls = 0
    /\ start = <<>> /\ end = <<>> /\ nodules_start = <<>> /\ nodules_size = <<>>
    /\ centers = <<>> /\ radiuses = <<>>
    /\ UnusedIns /\ UnusedReg /\ UnusedPar

NextEllipse == CallEllipse

SpecEllipse == InitEllipse /\ [][NextEllipse]_vars

\* (d1/r1)^2 + (d2/r2)^2 + (d3/r3)^2 < 1 over the rationals, d = v - center.
ExactInside(v, center, radius) ==
    LET d == Minus(v, center)
        r == radius
    IN (d[1] * d[1]) * (r[2] * r[2]) * (r[3] * r[3])
       + (d[2] * d[2]) * (r[1] * r[1]) * (r[3] * r[3])
       + (d[3] * d[3]) * (r[1] * r[1]) * (r[2] * r[2])
       < (r[1] * r[1]) * (r[2] * r[2]) * (r[3] * r[3])

AfterEllipse == kind = "ellipse" /\ pc = "done" /\ Len(centers) = 1

\* C4: make_ellipse_mask_numba sets exactly the voxels of the window whose
\* window-relative coordinate v has ((v - c)/r)^2 summed over the axes below 1
\* (not those where it is exactly 1), and leaves every other voxel unchanged.
C4_AsStated ==
    AfterEllipse =>
        batch_mask.data =
            [p \in Idx(mask0.shape) |->
                LET v == Minus(p, start[1])
                IN IF /\ \A k \in Axes : 0 <= v[k] /\ v[k] < end[1][k] - start[1][k]
                      /\ ExactInside(v, centers[1], radiuses[1])
                   THEN 1 ELSE mask0.data[p]]

\* A call that set a voxel whose metric is exactly 1.
C4_Witness ==
    /\ AfterEllipse
    /\ \E p \in Idx(mask0.shape) :
        /\ mask0.data[p] = 0 /\ batch_mask.data[p] = 1
        /\ ~ExactInside(Minus(p, start[1]), centers[1], radiuses[1])

\* Scenario 4: center (2,2,2), radius (1,1,1), one window spanning a zero mask.
Scenario4 ==
    /\ AfterEllipse
    /\ mask0 = Filled(ScanShape, 0)
    /\ start = <<Zeros>> /\ end = <<ScanShape>>
    /\ centers = <<Cube(2)>> /\ radiuses = <<Cube(1)>>

\* The center voxel and its six neighbours along one axis.
PlusShape(shape, c) ==
    [p \in Idx(shape) |->
        IF Abs(p[1] - c[1]) + Abs(p[2] - c[2]) + Abs(p[3] - c[3]) <= 1 THEN 1 ELSE 0]

\* C5 as stated: scenario 4 sets exactly the 7-voxel plus shape.
C5_AsStated == Scenario4 => batch_mask.data = PlusShape(ScanShape, Cube(2))

\* C5 amended: scenario 4 sets exactly the center voxel (2,2,2); the six
\* neighbours along one axis have metric exactly 1 and stay 0.
C5_Scenario4SetsCenterOnly == Scenario4 => batch_mask.data = OnlyVoxel(ScanShape, Cube(2))

C5_Witness == Scenario4 /\ batch_mask.data[Cube(2)] = 1

----------------------------------------------------------------------------
(* The iterations of a filler's loop run as concurrent workers *)

\* p comes before q in the order of the nested loops.
Before(p, q) ==
    \/ p[1] < q[1]
    \/ p[1] = q[1] /\ p[2] < q[2]
    \/ p[1] = q[1] /\ p[2] = q[2] /\ p[3] < q[3]

\* The voxels of S in the order in which an iteration stores to them.
RECURSIVE InLoopOrder(_)
InLoopOrder(S) ==
    IF S = {} THEN <<>>
    ELSE LET p == CHOOSE m \in S : \A o \in S \ {m} : Before(m, o)
         IN <<p>> \o InLoopOrder(S \ {p})

\* The stores of one iteration, <<voxel, value>> each, in program order. An
\* iteration reads the nodule or the item's numbers and never the mask, so its
\* stores do not depend on what other iterations have stored.
Stores(item) ==
    LET order == InLoopOrder(item.writes)
    IN [j \in 1..Len(order) |-> <<order[j], item.mask.data[order[j]]>>]

Workers == 1..2

Disjoint(w1, w2) == \E k \in Axes : Min2(w1[2][k], w2[2][k]) <= Max2(w1[1][k], w2[1][k])

\* Windows of the workers: those of the sequential calls and the two halves of
\* the mask along its second axis, taken in pairs that share no voxel.
ParWindows ==
    Windows \cup {<<Zeros, <<VolZ, 1, VolYX>>>>, <<<<0, 1, 0>>, VolShape>>}
ParWindowPairs == {ws \in ParWindows \X ParWindows : Disjoint(ws[1], ws[2])}

ParRectParams ==
    {<<ns, nz>> : ns \in (-1..1) \X (0..1) \X {0}, nz \in {Cube(1), Cube(2)}}
ParEllipseParams ==
    {<<c, r>> : c \in (0..1) \X (0..1) \X {0, VolYX}, r \in {Cube(1), Cube(2)}}

InitPar ==
    /\ pc = "idle"
    /\ batch_mask \in InitMasks
    /\ mask0 = batch_mask
    /\ kind = "none"
    /\ ncalls = 0
    /\ start = <<>> /\ end = <<>> /\ nodules_start = <<>> /\ nodules_size = <<>>
    /\ centers = <<>> /\ radiuses = <<>>
    /\ todo = <<>>
    /\ writers = [p \in Idx(VolShape) |-> {}]
    /\ UnusedIns /\ UnusedReg

\* The loop of make_rect_mask_numba is split: worker i gets iteration i.
ForkRect ==
    /\ pc = "idle"
    /\ \E ws \in ParWindowPairs, a \in ParRectParams, b \in ParRectParams :
        /\ start' = <<ws[1][1], ws[2][1]>>
        /\ end' = <<ws[1][2], ws[2][2]>>
        /\ nodules_start' = <<a[1], b[1]>>
        /\ nodules_size' = <<a[2], b[2]>>
        /\ todo' = <<Stores(RectItem(batch_mask, ws[1][1], ws[1][2], a[1], a[2])),
                     Stores(RectItem(batch_mask, ws[2][1], ws[2][2], b[1], b[2]))>>
    /\ kind' = "rect"
    /\ pc' = "running"
    /\ UNCHANGED <<batch_mask, mask0, ncalls, centers, radiuses, writers, insVars, regVars>>

\* The loop of make_ellipse_mask_numba is split: worker i gets iteration i.
ForkEllipse ==
    /\ pc = "idle"
    /\ \E ws \in ParWindowPairs, a \in ParEllipseParams, b \in ParEllipseParams :
        /\ start' = <<ws[1][1], ws[2][1]>>
        /\ end' = <<ws[1][2], ws[2][2]>>
        /\ centers' = <<a[1], b[1]>>
        /\ radiuses' = <<a[2], b[2]>>
        /\ todo' = <<Stores(EllipseItem(batch_mask, ws[1][1], ws[1][2], a[1], a[2])),
                     Stores(EllipseItem(batch_mask, ws[2][1], ws[2][2], b[1], b[2]))>>
    /\ kind' = "ellipse"
    /\ pc' = "running"
    /\ UNCHANGED <<batch_mask, mask0, ncalls, nodules_start, nodules_size, writers,
                   insVars, regVars>>

\* Worker w performs its next store.
Write(w) ==
    /\ pc = "running"
    /\ todo[w] # <<>>
    /\ LET p == Head(todo[w])[1]
           v == Head(todo[w])[2]
       IN /\ batch_mask' = [batch_mask EXCEPT !.data[p] = v]
          /\ writers' = [writers EXCEPT ![p] = @ \cup {w}]
    /\ todo' = [todo EXCEPT ![w] = Tail(@)]
    /\ UNCHANGED <<pc, mask0, kind, ncalls, itemVars, centers, insVars, regVars>>

\* Every worker has returned.
Join ==
    /\ pc = "running"
    /\ \A w \in Workers : todo[w] = <<>>
    /\ pc' = "joined"
    /\ UNCHANGED <<batch_mask, mask0, kind, ncalls, itemVars, centers, parVars,
                   insVars, regVars>>

NextPar == ForkRect \/ ForkEllipse \/ (\E w \in Workers : Write(w)) \/ Join

SpecPar == InitPar /\ [][NextPar]_vars

\* What the sequential loop makes of the mask the workers started from.
Sequential ==
    IF kind = "rect"
    THEN make_rect_mask_numba(mask0, start, end, nodules_start, nodules_size).mask
    ELSE make_ellipse_mask_numba(mask0, start, end, centers, radiuses).mask

\* C10: with pairwise disjoint windows, however the workers' stores interleave,
\* no voxel is stored to by two workers, and when all have returned the mask is
\* the one the sequential loop produces.
C10_DisjointWindowsParallelSafe ==
    /\ \A p \in Idx(VolShape) : Cardinality(writers[p]) <= 1
    /\ pc = "joined" => batch_mask = Sequential

\* Both workers have stored to two voxels or more and the mask has changed.
C10_Witness ==
    /\ pc = "joined"
    /\ batch_mask # mask0
    /\ \A w \in Workers : Cardinality({p \in Idx(VolShape) : writers[p] = {w}}) >= 2

====
